---- MODULE Spec2Model ----
(***************************************************************************)
(* ohcli (src/ohcli.h): a command-line binding library.  A CLI object      *)
(* holds a registry (funcs, alias), the token list, the deferred actions   *)
(* (tasks) and the parsed flag.  Callers register bindings, call parse on  *)
(* an argument vector and then run.                                        *)
(*                                                                         *)
(* Strings are sequences of one-character strings, so "-ab" is             *)
(* <<"-","a","b">>; std::map is a function whose DOMAIN is the key set.    *)
(* An exception (utils::fatal, utils::error) leaves the object as the      *)
(* handler left it when it was thrown; the caller may catch it and go on.  *)
(***************************************************************************)
EXTENDS Integers, Sequences, FiniteSets, TLC

VARIABLES
  tokens,   \* std::vector<Token> tokens
  alias,    \* std::map<string,string> alias
  funcs,    \* std::map<string,Callback> funcs
  tasks,    \* std::vector<Packed> tasks
  parsed,   \* bool parsed
  oneof,    \* the int variable bound by add_value (main.cpp: int oneof)
  option,   \* the bool variable bound by add_option (main.cpp: bool option)
  call,     \* the last API call and its inputs
  status,   \* how the last call ended: "ok", "fatal", "error", "abort"
  warns,    \* the warnings the last call printed, in order
  invoked,  \* the deferred actions the last run() call invoked, in order
  nReg, nParse, nRun   \* number of registration / parse / run calls so far

vars == <<tokens, alias, funcs, tasks, parsed, oneof, option,
          call, status, warns, invoked, nReg, nParse, nRun>>

----------------------------------------------------------------------------
(* Bounds of the model *)

MaxReg == 2
MaxParse == 2
MaxRun == 1
MaxArgs == 2
MaxTasks == 6
MaxOrderTasks == 7

----------------------------------------------------------------------------
(* Data *)

NoPriority == -1
NoArity == -1
IntMax == 2147483647

Token(arg) == [cmd |-> arg, args |-> <<>>]

\* Packed holds std::bind(func, arg) and the priority; func and name tell
\* which registration's function object is bound, arg the bound arguments
Packed(func, name, arg, priority_) ==
  [func |-> func, name |-> name, arg |-> arg, priority |-> priority_]

Callback(name_, func, expected_args_, priority_) ==
  [name |-> name_, func |-> func, expected_args |-> expected_args_,
   priority |-> priority_]

\* Callback(): an action that does nothing, no arity, lowest priority
DefaultCallback ==
  [name |-> <<>>, func |-> [kind |-> "noop"], expected_args |-> NoArity,
   priority |-> NoPriority]

\* std::map::insert: an existing key keeps its value
Insert(m, k, v) == IF k \in DOMAIN m THEN m ELSE m @@ (k :> v)

\* std::map::operator[] read: a missing key yields a default-constructed value
At(m, k) == IF k \in DOMAIN m THEN m[k] ELSE DefaultCallback

----------------------------------------------------------------------------
(* Restrictors and conversion *)

default_restrictor == [kind |-> "default"]

oneof_restrictor(s) == [kind |-> "oneof", s |-> s]

range_restrictor(a, b) == [kind |-> "range", a |-> a, b |-> b]

Accepts(restrictor, v) ==
  CASE restrictor.kind = "default" -> TRUE
    [] restrictor.kind = "oneof" -> v \in restrictor.s
    [] restrictor.kind = "range" -> v >= restrictor.a /\ v < restrictor.b

IsDigit(c) == c \in {"0", "1", "2", "3", "4", "5", "6", "7", "8", "9"}

DigitVal(c) ==
  CASE c = "0" -> 0 [] c = "1" -> 1 [] c = "2" -> 2 [] c = "3" -> 3
    [] c = "4" -> 4 [] c = "5" -> 5 [] c = "6" -> 6 [] c = "7" -> 7
    [] c = "8" -> 8 [] c = "9" -> 9

IsSpace(c) == c = " "

\* std::stoi's scan: the longest run of digits from position i.  val is the
\* magnitude while it fits an int; over says it does not, and min that it is
\* exactly IntMax + 1 (which fits when negated)
RECURSIVE ScanDigits(_, _, _)
ScanDigits(s, i, st) ==
  IF i > Len(s) \/ ~IsDigit(s[i]) THEN st
  ELSE LET d == DigitVal(s[i])
           fits == ~st.over /\ (st.val < (IntMax \div 10)
                                \/ (st.val = (IntMax \div 10) /\ d <= (IntMax % 10)))
           edge == ~st.over /\ st.val = (IntMax \div 10) /\ d = (IntMax % 10) + 1
       IN ScanDigits(s, i + 1,
                     [val |-> IF fits THEN st.val * 10 + d ELSE st.val,
                      n |-> st.n + 1, over |-> ~fits, min |-> edge])

RECURSIVE SkipSpace(_, _)
SkipSpace(s, i) ==
  IF i <= Len(s) /\ IsSpace(s[i]) THEN SkipSpace(s, i + 1) ELSE i

\* utils::str_to<int>: std::stoi skips leading blanks, takes an optional
\* sign and the longest run of digits, and ignores what follows; no digit
\* (invalid_argument) or a value out of int's range (out_of_range) is
\* caught and becomes utils::error
str_to_int(s) ==
  LET i == SkipSpace(s, 1)
      neg == i <= Len(s) /\ s[i] = "-"
      j == IF i <= Len(s) /\ s[i] \in {"-", "+"} THEN i + 1 ELSE i
      d == ScanDigits(s, j, [val |-> 0, n |-> 0, over |-> FALSE, min |-> FALSE])
  IN IF d.n = 0 THEN [ok |-> FALSE, val |-> 0]
     ELSE IF d.over
          THEN IF neg /\ d.min THEN [ok |-> TRUE, val |-> (0 - IntMax) - 1]
               ELSE [ok |-> FALSE, val |-> 0]
     ELSE [ok |-> TRUE, val |-> IF neg THEN 0 - d.val ELSE d.val]

----------------------------------------------------------------------------
(* Diagnostics: utils::warn prints and goes on *)

ArityWarning(name, expected, given) ==
  [kind |-> "arity", name |-> name, expected |-> expected, given |-> given]

UnrecognizedWarning(cmd) == [kind |-> "unrecognized", cmd |-> cmd]

DiscardedWarning(arg) == [kind |-> "discarded", arg |-> arg]

DiscardedWarnings(args) == [i \in 1..Len(args) |-> DiscardedWarning(args[i])]

----------------------------------------------------------------------------
(* Callback::pack *)

\* arg.size() < expected_args compares a size_t with an int: the int is
\* converted to unsigned, so a negative expected_args is above every size
SizeLess(k, e) == e < 0 \/ k < e

SizeGreater(k, e) == e >= 0 /\ k > e

\* pack passing on only the expected number of arguments
pack_truncating(cb, arg) ==
  IF cb.expected_args # -1 /\ SizeLess(Len(arg), cb.expected_args)
  THEN [raised |-> TRUE, warns |-> <<>>, packed |-> <<>>]
  ELSE [raised |-> FALSE,
        warns |-> IF cb.expected_args # -1
                     /\ SizeGreater(Len(arg), cb.expected_args)
                  THEN <<ArityWarning(cb.name, cb.expected_args, Len(arg))>>
                  ELSE <<>>,
        packed |-> <<Packed(cb.func, cb.name,
                            IF cb.expected_args # -1
                               /\ SizeGreater(Len(arg), cb.expected_args)
                            THEN SubSeq(arg, 1, cb.expected_args) ELSE arg,
                            cb.priority)>>]

\* The outcome of pack: raised (utils::error, too few arguments), the
\* warnings printed, and the Packed action (func bound to all of arg)
pack(cb, arg) ==
  IF cb.expected_args # -1 /\ SizeLess(Len(arg), cb.expected_args)
  THEN [raised |-> TRUE, warns |-> <<>>, packed |-> <<>>]
  ELSE [raised |-> FALSE,
        warns |-> IF cb.expected_args # -1
                     /\ SizeGreater(Len(arg), cb.expected_args)
                  THEN <<ArityWarning(cb.name, cb.expected_args, Len(arg))>>
                  ELSE <<>>,
        packed |-> <<Packed(cb.func, cb.name, arg, cb.priority)>>]

----------------------------------------------------------------------------
(* Registration *)

\* add_cmd(cmd, func, expected_args, priority)
add_cmd(fs, al, isParsed, cmd, func, expected_args, priority) ==
  IF isParsed THEN [fatal |-> TRUE, funcs |-> fs, alias |-> al]
  ELSE IF cmd \in DOMAIN fs THEN [fatal |-> TRUE, funcs |-> fs, alias |-> al]
  ELSE [fatal |-> FALSE,
        funcs |-> Insert(fs, cmd, Callback(cmd, func, expected_args, priority)),
        alias |-> al]

\* add_cmd(cmd, alia, func, expected_args, priority)
add_cmd_alias(fs, al, isParsed, cmd, alia, func, expected_args, priority) ==
  IF isParsed THEN [fatal |-> TRUE, funcs |-> fs, alias |-> al]
  ELSE IF cmd \in DOMAIN fs THEN [fatal |-> TRUE, funcs |-> fs, alias |-> al]
  ELSE IF alia \in DOMAIN al THEN [fatal |-> TRUE, funcs |-> fs, alias |-> al]
  ELSE [fatal |-> FALSE,
        funcs |-> Insert(fs, cmd, Callback(cmd, func, expected_args, priority)),
        alias |-> Insert(al, alia, cmd)]

\* the closure add_value registers: convert, restrict, assign to the target
ValueFunc(restrictor) == [kind |-> "value", restrictor |-> restrictor]

\* the closure add_option registers: set the target to true
OptionFunc == [kind |-> "option"]

\* a caller's own Cmd (main.cpp's print): no effect on the library's state
CmdFunc == [kind |-> "cmd"]

add_value(fs, al, isParsed, name, restrictor) ==
  IF isParsed THEN [fatal |-> TRUE, funcs |-> fs, alias |-> al]
  ELSE add_cmd(fs, al, isParsed, name, ValueFunc(restrictor), 1, NoPriority)

add_value_alias(fs, al, isParsed, name, alia, restrictor) ==
  IF isParsed THEN [fatal |-> TRUE, funcs |-> fs, alias |-> al]
  ELSE add_cmd_alias(fs, al, isParsed, name, alia, ValueFunc(restrictor), 1,
                     NoPriority)

add_option(fs, al, isParsed, name) ==
  IF isParsed THEN [fatal |-> TRUE, funcs |-> fs, alias |-> al]
  ELSE add_cmd(fs, al, isParsed, name, OptionFunc, 0, NoPriority)

add_option_alias(fs, al, isParsed, name, alia) ==
  IF isParsed THEN [fatal |-> TRUE, funcs |-> fs, alias |-> al]
  ELSE add_cmd_alias(fs, al, isParsed, name, alia, OptionFunc, 0, NoPriority)

----------------------------------------------------------------------------
(* parse: the tokenizer *)

\* the loop over argv[1..argc-1]; toks already ends with the token of argv[0]
RECURSIVE tokenize(_, _, _)
tokenize(argv, i, toks) ==
  IF i > Len(argv) THEN toks
  ELSE LET a == argv[i] IN
    IF Len(a) > 0 /\ a[1] = "-" /\ Len(a) # 1
    THEN IF a[2] = "-" /\ Len(a) # 2
         THEN tokenize(argv, i + 1, Append(toks, Token(SubSeq(a, 3, Len(a)))))
         ELSE tokenize(argv, i + 1, Append(toks, Token(SubSeq(a, 2, Len(a)))))
    ELSE tokenize(argv, i + 1,
                  [toks EXCEPT ![Len(toks)].args = Append(@, a)])

----------------------------------------------------------------------------
(* parse_multi and is_multi: the cluster expander *)

is_multi(str, fs, al) ==
  IF str \in DOMAIN fs \/ str \in DOMAIN al THEN FALSE
  ELSE \A i \in 1..Len(str) :
         ~(<<str[i]>> \notin DOMAIN fs /\ <<str[i]>> \notin DOMAIN al)

\* The loop of parse_multi with the iterator as an index.  A cluster at `it`
\* gets one token per character inserted before it and is then erased;
\* erase's result is dropped, so `it` is an invalidated iterator when the
\* loop increments it: undefined behaviour.  A build whose iterator is a
\* pointer leaves it on the element after the erased one, and the increment
\* steps over that element; a build with checked iterators
\* (_GLIBCXX_DEBUG) aborts the process at the increment.
RECURSIVE parse_multi(_, _, _, _, _, _)
parse_multi(toks, it, fs, al, ws, checked) ==
  IF it > Len(toks) THEN [tokens |-> toks, warns |-> ws, aborted |-> FALSE]
  ELSE IF is_multi(toks[it].cmd, fs, al)
  THEN LET t == toks[it]
           n == Len(t.cmd)
           singles == [i \in 1..n |-> Token(<<t.cmd[i]>>)]
           after == SubSeq(toks, 1, it - 1) \o singles
                    \o SubSeq(toks, it + 1, Len(toks))
           printed == ws \o DiscardedWarnings(t.args)
       IN IF checked
          THEN [tokens |-> after, warns |-> printed, aborted |-> TRUE]
          ELSE parse_multi(after, it + n + 1, fs, al, printed, checked)
  ELSE parse_multi(toks, it + 1, fs, al, ws, checked)

----------------------------------------------------------------------------
(* parse: the dispatcher *)

\* the loop over tokens: pack the binding of each token that resolves
RECURSIVE dispatch(_, _, _, _, _, _)
dispatch(toks, i, fs, al, tk, ws) ==
  IF i > Len(toks) THEN [raised |-> FALSE, tasks |-> tk, warns |-> ws]
  ELSE LET r == toks[i]
           cb == IF r.cmd \in DOMAIN fs THEN At(fs, r.cmd)
                 ELSE At(fs, al[r.cmd])
           p == pack(cb, r.args)
       IN IF r.cmd \in DOMAIN fs \/ r.cmd \in DOMAIN al
          THEN IF p.raised
               THEN [raised |-> TRUE, tasks |-> tk, warns |-> ws]
               ELSE dispatch(toks, i + 1, fs, al, tk \o p.packed,
                             ws \o p.warns)
          ELSE dispatch(toks, i + 1, fs, al, tk,
                        (ws \o <<UnrecognizedWarning(r.cmd)>>)
                          \o DiscardedWarnings(r.args))

\* std::sort by priority, greater first: the result is some arrangement of
\* the tasks in non-increasing priority; std::sort promises nothing about
\* the order of tasks of equal priority, so every such arrangement is one
RECURSIVE sort_tasks(_, _)
sort_tasks(t, S) ==
  IF S = {} THEN {<<>>}
  ELSE LET top == {i \in S : \A j \in S : t[j].priority <= t[i].priority}
       IN UNION {{<<v>> \o r :
                    r \in sort_tasks(t, S \ {CHOOSE i \in top : t[i] = v})} :
                 v \in {t[i] : i \in top}}

----------------------------------------------------------------------------
(* run: invoking the deferred actions *)

\* the closure of add_value assigning before it asks the restrictor
invoke_assign_first(p, val, opt) ==
  CASE p.func.kind = "value" ->
         LET temp == str_to_int(p.arg[1]) IN
           IF ~temp.ok THEN [raised |-> TRUE, oneof |-> val, option |-> opt]
           ELSE IF ~Accepts(p.func.restrictor, temp.val)
           THEN [raised |-> TRUE, oneof |-> temp.val, option |-> opt]
           ELSE [raised |-> FALSE, oneof |-> temp.val, option |-> opt]
    [] p.func.kind = "option" ->
         [raised |-> FALSE, oneof |-> val, option |-> TRUE]
    [] OTHER -> [raised |-> FALSE, oneof |-> val, option |-> opt]

\* one Packed action invoked: the closure of add_value, of add_option, a
\* caller's Cmd, or Callback()'s empty function
invoke(p, val, opt) ==
  CASE p.func.kind = "value" ->
         LET temp == str_to_int(p.arg[1]) IN
           IF ~temp.ok THEN [raised |-> TRUE, oneof |-> val, option |-> opt]
           ELSE IF ~Accepts(p.func.restrictor, temp.val)
           THEN [raised |-> TRUE, oneof |-> val, option |-> opt]
           ELSE [raised |-> FALSE, oneof |-> temp.val, option |-> opt]
    [] p.func.kind = "option" ->
         [raised |-> FALSE, oneof |-> val, option |-> TRUE]
    [] OTHER -> [raised |-> FALSE, oneof |-> val, option |-> opt]

\* for (auto &r: tasks) r();  an exception ends the loop
RECURSIVE run_tasks(_, _, _, _, _)
run_tasks(tk, i, val, opt, inv) ==
  IF i > Len(tk)
  THEN [raised |-> FALSE, oneof |-> val, option |-> opt, invoked |-> inv]
  ELSE LET r == invoke(tk[i], val, opt) IN
    IF r.raised
    THEN [raised |-> TRUE, oneof |-> r.oneof, option |-> r.option,
          invoked |-> Append(inv, tk[i])]
    ELSE run_tasks(tk, i + 1, r.oneof, r.option, Append(inv, tk[i]))

----------------------------------------------------------------------------
(* The object and its operations *)

\* CLI(): parsed(false), everything else empty; main.cpp's targets
Init ==
  /\ tokens = <<>> /\ alias = <<>> /\ funcs = <<>> /\ tasks = <<>>
  /\ parsed = FALSE
  /\ oneof = 0 /\ option = FALSE
  /\ call = [op |-> "CLI"] /\ status = "ok" /\ warns = <<>> /\ invoked = <<>>
  /\ nReg = 0 /\ nParse = 0 /\ nRun = 0

\* a registration call c with outcome r (of add_cmd, add_value, add_option)
Registered(c, r) ==
  /\ status # "abort"
  /\ nReg < MaxReg
  /\ funcs' = r.funcs
  /\ alias' = r.alias
  /\ call' = c
  /\ status' = IF r.fatal THEN "fatal" ELSE "ok"
  /\ warns' = <<>>
  /\ invoked' = <<>>
  /\ nReg' = nReg + 1
  /\ UNCHANGED <<tokens, tasks, parsed, oneof, option, nParse, nRun>>

\* parse(argc, argv)
parse(argv) ==
  /\ status # "abort"
  /\ call' = [op |-> "parse", argv |-> argv]
  /\ nParse' = nParse + 1
  /\ invoked' = <<>>
  /\ LET toks == tokenize(argv, 2, Append(tokens, Token(argv[1])))
         fs == Insert(funcs, argv[1], DefaultCallback)
         \* the build's iterators matter only if parse_multi erases
         builds == IF parse_multi(toks, 1, fs, alias, <<>>, TRUE).aborted
                   THEN BOOLEAN ELSE {FALSE}
     IN \E checked \in builds :
       LET m == parse_multi(toks, 1, fs, alias, <<>>, checked)
           d == dispatch(m.tokens, 1, fs, alias, tasks, m.warns)
       IN /\ funcs' = fs
          /\ tokens' = m.tokens
          /\ IF m.aborted
             THEN /\ status' = "abort"
                  /\ warns' = m.warns
                  /\ UNCHANGED <<tasks, parsed>>
             ELSE IF d.raised
             THEN /\ status' = "error"
                  /\ warns' = d.warns
                  /\ tasks' = d.tasks
                  /\ UNCHANGED parsed
             ELSE /\ status' = "ok"
                  /\ warns' = d.warns
                  /\ tasks' \in sort_tasks(d.tasks, 1..Len(d.tasks))
                  /\ parsed' = TRUE
  /\ UNCHANGED <<alias, oneof, option, nReg, nRun>>

\* run() without the check of parsed
run_unchecked ==
  /\ status # "abort"
  /\ call' = [op |-> "run"]
  /\ nRun' = nRun + 1
  /\ warns' = <<>>
  /\ LET r == run_tasks(tasks, 1, oneof, option, <<>>) IN
     /\ status' = IF r.raised THEN "error" ELSE "ok"
     /\ invoked' = r.invoked
     /\ oneof' = r.oneof
     /\ option' = r.option
  /\ UNCHANGED <<tokens, alias, funcs, tasks, parsed, nReg, nParse>>

\* run()
run ==
  /\ status # "abort"
  /\ call' = [op |-> "run"]
  /\ nRun' = nRun + 1
  /\ warns' = <<>>
  /\ IF ~parsed
     THEN /\ status' = "fatal"
          /\ invoked' = <<>>
          /\ UNCHANGED <<oneof, option>>
     ELSE LET r == run_tasks(tasks, 1, oneof, option, <<>>) IN
          /\ status' = IF r.raised THEN "error" ELSE "ok"
          /\ invoked' = r.invoked
          /\ oneof' = r.oneof
          /\ option' = r.option
  /\ UNCHANGED <<tokens, alias, funcs, tasks, parsed, nReg, nParse>>

----------------------------------------------------------------------------
(* The callers: which calls they make, with which inputs *)

\* all sequences over S of length at most n
RECURSIVE SeqsUpTo(_, _)
SeqsUpTo(S, n) ==
  IF n = 0 THEN {<<>>}
  ELSE LET shorter == SeqsUpTo(S, n - 1)
       IN shorter \cup {Append(q, x) : q \in shorter, x \in S}

RECURSIVE Flatten(_)
Flatten(q) == IF q = <<>> THEN <<>> ELSE Head(q) \o Flatten(Tail(q))

\* argument vectors: argv[0] from progs, then at most MaxArgs groups, a
\* group being an argument or an option followed by its arguments
ArgVectors(progs, groups) ==
  {<<p>> \o Flatten(q) : p \in progs, q \in SeqsUpTo(groups, MaxArgs)}

\* each argument a group of its own
Single(args) == {<<a>> : a \in args}

AddCmd(names, arities, priorities) ==
  \E cmd \in names, e \in arities, p \in priorities :
    Registered([op |-> "add_cmd"],
               add_cmd(funcs, alias, parsed, cmd, CmdFunc, e, p))

AddCmdAlias(names, arities, priorities) ==
  \E cmd \in names, alia \in names, e \in arities, p \in priorities :
    Registered([op |-> "add_cmd"],
               add_cmd_alias(funcs, alias, parsed, cmd, alia, CmdFunc, e, p))

AddValue(names, restrictors) ==
  \E name \in names, restrictor \in restrictors :
    Registered([op |-> "add_value"],
               add_value(funcs, alias, parsed, name, restrictor))

AddValueAlias(names, restrictors) ==
  \E name \in names, alia \in names, restrictor \in restrictors :
    Registered([op |-> "add_value"],
               add_value_alias(funcs, alias, parsed, name, alia, restrictor))

AddOption(names) ==
  \E name \in names :
    Registered([op |-> "add_option"],
               add_option(funcs, alias, parsed, name))

AddOptionAlias(names) ==
  \E name \in names, alia \in names :
    Registered([op |-> "add_option"],
               add_option_alias(funcs, alias, parsed, name, alia))

\* the number of tokens parse(argv) leaves in tokens, which is never cleared
TokensAfter(argv) ==
  Len(parse_multi(tokenize(argv, 2, Append(tokens, Token(argv[1]))), 1,
                  Insert(funcs, argv[1], DefaultCallback), alias, <<>>,
                  FALSE).tokens)

\* at most `limit` parse calls; tasks is never cleared either, and a parse
\* call adds at most one task per token: at most `cap` tasks
Parse(argvs, limit, cap) ==
  /\ nParse < limit
  /\ \E argv \in argvs :
       Len(tasks) + TokensAfter(argv) <= cap /\ parse(argv)

Run == nRun < MaxRun /\ run

\* main.cpp calls parse once
MainParseCalls == 1

\* main.cpp's restrictor for its int: oneof({1, 3, 5})
MainOneof == oneof_restrictor({1, 3, 5})

\* a range restrictor on int: range(2, 4) accepts 2 and 3
IntRange == range_restrictor(2, 4)

----------------------------------------------------------------------------
(* Spec: the life cycle.  Every kind of registration on the names a and b, *)
(* parse on vectors of "-a", run.                                          *)

Names == {<<"a">>, <<"b">>}

Vectors == ArgVectors({<<"p">>}, Single({<<"-", "a">>}))

Next ==
  \/ AddCmd(Names, {NoArity, 1}, {NoPriority})
  \/ AddCmdAlias(Names, {NoArity, 1}, {NoPriority})
  \/ AddValue(Names, {MainOneof})
  \/ AddValueAlias(Names, {MainOneof})
  \/ AddOption(Names)
  \/ AddOptionAlias(Names)
  \/ Parse(Vectors, MaxParse, MaxTasks)
  \/ Run

Spec == Init /\ [][Next]_vars

----------------------------------------------------------------------------
(* SpecLife: the name a registered as a command or as a value; parse on    *)
(* the vectors "p", "p -a" and "p -a x" (the value binding lacks its       *)
(* argument in the second, and cannot convert it in the third); run.       *)

LifeVectors ==
  {<<<<"p">>>>, <<<<"p">>, <<"-", "a">>>>, <<<<"p">>, <<"-", "a">>, <<"x">>>>}

NextLife ==
  \/ AddCmd({<<"a">>}, {NoArity}, {NoPriority})
  \/ AddValue({<<"a">>}, {MainOneof})
  \/ Parse(LifeVectors, MaxParse, MaxTasks)
  \/ Run

SpecLife == Init /\ [][NextLife]_vars

----------------------------------------------------------------------------
(* SpecOrder: commands of two priorities and arities on a and b; up to      *)
(* MaxParse parse calls on vectors of "-a", "-b" and a plain argument; run. *)

OrderVectors ==
  ArgVectors({<<"p">>}, Single({<<"-", "a">>, <<"-", "b">>, <<"1">>}))

NextOrder ==
  \/ AddCmd(Names, {NoArity, 1}, {NoPriority, 5})
  \/ Parse(OrderVectors, MaxParse, MaxOrderTasks)
  \/ Run

SpecOrder == Init /\ [][NextOrder]_vars

----------------------------------------------------------------------------
(* SpecLex: nothing registered; parse on vectors of dashes, dashed names,  *)
(* plain and empty arguments; run.                                         *)

LexArgs ==
  {<<"-">>, <<"-", "-">>, <<"-", "a">>, <<"-", "-", "a">>, <<"a">>, <<>>}

LexVectors == ArgVectors({<<"p">>}, Single(LexArgs))

NextLex ==
  \/ Parse(LexVectors, MaxParse, MaxOrderTasks)
  \/ Run

SpecLex == Init /\ [][NextLex]_vars

----------------------------------------------------------------------------
(* SpecMulti: commands a and b, with or without an alias; parse on vectors *)
(* of "-ab", "-a" and a plain argument, under the program names p and a.   *)

MultiVectors ==
  ArgVectors({<<"p">>, <<"a">>},
             Single({<<"-", "a", "b">>, <<"-", "a">>, <<"x">>}))

NextMulti ==
  \/ AddCmd(Names, {NoArity}, {NoPriority})
  \/ AddCmdAlias(Names, {NoArity}, {NoPriority})
  \/ Parse(MultiVectors, MaxParse, MaxTasks)
  \/ Run

SpecMulti == Init /\ [][NextMulti]_vars

----------------------------------------------------------------------------
(* SpecPack: the command a of no, zero or one expected argument; one parse *)
(* call, as in main.cpp, on vectors of "-a", "-a x" and "-a x x"; run.     *)

PackGroups ==
  {<<<<"-", "a">>>>, <<<<"-", "a">>, <<"x">>>>,
   <<<<"-", "a">>, <<"x">>, <<"x">>>>}

PackVectors == ArgVectors({<<"p">>}, PackGroups)

NextPack ==
  \/ AddCmd({<<"a">>}, {NoArity, 0, 1}, {NoPriority})
  \/ Parse(PackVectors, MainParseCalls, MaxTasks)
  \/ Run

SpecPack == Init /\ [][NextPack]_vars

----------------------------------------------------------------------------
(* SpecValue: the value binding n, restricted to {1, 3, 5}, to [2, 4) or   *)
(* not at all; one parse call, as in main.cpp, on vectors of "-n s", s an  *)
(* argument that converts to an accepted value, to a rejected one, in      *)
(* part, or not at all; run.                                               *)

ValueStrings == {<<"3">>, <<"2">>, <<"3", "x">>, <<"x">>}

ValueGroups == {<<<<"-", "n">>, v>> : v \in ValueStrings}

ValueVectors == ArgVectors({<<"p">>}, ValueGroups)

NextValue ==
  \/ AddValue({<<"n">>}, {MainOneof, default_restrictor, IntRange})
  \/ Parse(ValueVectors, MainParseCalls, MaxTasks)
  \/ Run

SpecValue == Init /\ [][NextValue]_vars

----------------------------------------------------------------------------
(* Steps of a behaviour, and what the claims speak of *)

RegistrationOps == {"add_cmd", "add_value", "add_option"}

IsRegistrationStep == nReg' = nReg + 1 /\ call'.op \in RegistrationOps

IsParseStep == nParse' = nParse + 1 /\ call'.op = "parse"

IsRunStep == nRun' = nRun + 1 /\ call'.op = "run"

IsPrefix(s, t) == Len(s) <= Len(t) /\ s = SubSeq(t, 1, Len(s))

Count(s, v) == Cardinality({i \in 1..Len(s) : s[i] = v})

\* s and t hold the same elements, each as often
IsPermutation(s, t) ==
  /\ Len(s) = Len(t)
  /\ \A i \in 1..Len(s) : Count(s, s[i]) = Count(t, s[i])

IsRegistered(name, fs, al) == name \in DOMAIN fs \/ name \in DOMAIN al

\* the binding of a registered name: by primary name first, else by alias
Binding(name, fs, al) == IF name \in DOMAIN fs THEN fs[name] ELSE fs[al[name]]

\* an action of a registered binding (not the empty action of Callback())
IsBound(p) == p.func.kind # "noop"

----------------------------------------------------------------------------
(* C1 *)

\* C1: Name uniqueness across both namespaces: after any sequence of
\* registration calls the primary names and the aliases are disjoint and
\* every alias maps to an existing primary name (a registration whose name
\* or alias exists already in either namespace having failed).
C1_NamesUnique ==
  nParse = 0 =>
    /\ DOMAIN funcs \cap DOMAIN alias = {}
    /\ \A a \in DOMAIN alias : alias[a] \in DOMAIN funcs

----------------------------------------------------------------------------
(* C6 *)

\* C6: No registration after parsing has begun: once a parse call has
\* started, whether it completed or raised an error, every registration call
\* fails fatally and leaves funcs and alias unchanged.
C6_NoRegistrationAfterParse ==
  [][(nParse > 0 /\ IsRegistrationStep)
       => (status' = "fatal" /\ funcs' = funcs /\ alias' = alias)]_vars

----------------------------------------------------------------------------
(* C7 *)

\* C7: Lifecycle: the object starts Unparsed, becomes Parsed only when a
\* parse call completes, and never returns to Unparsed; run() while Unparsed
\* fails fatally and invokes nothing; run() while Parsed invokes the tasks
\* in their order (all of them unless one raises).
C7_Lifecycle ==
  /\ ~parsed
  /\ [][/\ parsed => parsed'
        /\ (~parsed /\ parsed') => (IsParseStep /\ status' = "ok")
        /\ (IsParseStep /\ status' = "ok") => parsed'
        /\ (IsRunStep /\ ~parsed)
             => /\ status' = "fatal"
                /\ invoked' = <<>>
                /\ oneof' = oneof /\ option' = option
        /\ (IsRunStep /\ parsed)
             => /\ status' # "fatal"
                /\ IsPrefix(invoked', tasks)
                /\ status' = "ok" => invoked' = tasks]_vars

\* a run() on an object Parsed by its second parse call, which invoked a
\* registered action
C7_Witness ==
  /\ call.op = "run" /\ parsed /\ status = "ok"
  /\ nParse = 2
  /\ \E i \in 1..Len(invoked) : IsBound(invoked[i])

----------------------------------------------------------------------------
(* C4 *)

\* C4: Priority-ordered execution: run() invokes the deferred actions in
\* non-increasing priority order, whatever the order of the commands in the
\* input: of two resolved commands with priorities p > q, the one of
\* priority p is invoked first.
C4_PriorityOrder ==
  (call.op = "run" /\ status # "fatal") =>
    \A i, j \in 1..Len(invoked) :
      (i < j /\ IsBound(invoked[i]) /\ IsBound(invoked[j]))
        => invoked[i].priority >= invoked[j].priority

----------------------------------------------------------------------------
(* C5 *)

\* the tokens of argv by the tokenizer rule of the specification: argument 0
\* opens the first token; -x (longer than "-") and --x (longer than "--")
\* open a token named x; every other argument goes to the open token
RECURSIVE RuleTokens(_, _, _)
RuleTokens(argv, i, toks) ==
  IF i > Len(argv) THEN toks
  ELSE LET a == argv[i]
           dashes == IF Len(a) >= 2 /\ a[1] = "-" /\ a[2] = "-" THEN 2
                     ELSE IF Len(a) >= 1 /\ a[1] = "-" THEN 1 ELSE 0
       IN IF i = 1 THEN RuleTokens(argv, 2, <<Token(a)>>)
          ELSE IF dashes > 0 /\ Len(a) > dashes
          THEN RuleTokens(argv, i + 1,
                          Append(toks, Token(SubSeq(a, dashes + 1, Len(a)))))
          ELSE RuleTokens(argv, i + 1,
                          [toks EXCEPT ![Len(toks)].args = Append(@, a)])

\* a token that is a cluster: its name is not registered, every character
\* of it is
IsCluster(t, fs, al) ==
  /\ ~IsRegistered(t.cmd, fs, al)
  /\ \A i \in 1..Len(t.cmd) : IsRegistered(<<t.cmd[i]>>, fs, al)

\* every cluster among toks[i..] replaced by one argument-less token per
\* character
RECURSIVE ExpandAll(_, _, _, _)
ExpandAll(toks, i, fs, al) ==
  IF i > Len(toks) THEN <<>>
  ELSE (IF IsCluster(toks[i], fs, al)
        THEN [k \in 1..Len(toks[i].cmd) |-> Token(<<toks[i].cmd[k]>>)]
        ELSE <<toks[i]>>)
       \o ExpandAll(toks, i + 1, fs, al)

\* the deferred actions of toks: one per token that resolves, bound to the
\* token's arguments
RECURSIVE Dispatched(_, _, _)
Dispatched(toks, fs, al) ==
  IF toks = <<>> THEN <<>>
  ELSE LET t == Head(toks)
           b == Binding(t.cmd, fs, al)
       IN (IF IsRegistered(t.cmd, fs, al)
           THEN <<Packed(b.func, b.name, t.args, b.priority)>>
           ELSE <<>>)
          \o Dispatched(Tail(toks), fs, al)

\* C5: Dispatch is one-to-one: after a parse call that completes, the
\* deferred actions are exactly one per post-expansion token of that input
\* after the program-identity token whose name resolves (by primary name,
\* else by alias), bound to that token's arguments; an unresolved token
\* gives no action and stops nothing.  (The empty action that Callback()
\* gives the program-identity token is not counted.)
C5_DispatchOneToOne ==
  [][(IsParseStep /\ status' = "ok")
       => LET input == RuleTokens(call'.argv, 1, <<>>)
              after == ExpandAll(input, 2, funcs, alias)
          IN IsPermutation(SelectSeq(tasks', IsBound),
                           SelectSeq(Dispatched(after, funcs, alias), IsBound))
    ]_vars

----------------------------------------------------------------------------
(* C3 *)

\* C3: Tokenizer rule: after the first parse call on an argument vector the
\* token list is the one the rule gives: argument 0 opens the first token;
\* an argument of one dash and more opens a token named without the dash, one
\* of two dashes and more a token named without both; every other argument
\* (a bare "-", a bare "--", the empty string, a dash-less one) opens no
\* token and joins the arguments of the token opened last.  (Stated where no
\* token is a cluster, so that expansion changes nothing.)
C3_TokenizerRule ==
  (call.op = "parse" /\ nParse = 1
     /\ \A i \in 2..Len(tokens) : ~IsCluster(tokens[i], funcs, alias))
    => tokens = RuleTokens(call.argv, 1, <<>>)

----------------------------------------------------------------------------
(* C2 *)

\* argument 0 is no character of a later argument: its entry in funcs makes
\* no character of a token a registered name
ProgramNameApart(argv) ==
  \A i \in 2..Len(argv) : \A k \in 1..Len(argv[i]) : <<argv[i][k]>> # argv[1]

\* C2: Cluster expansion applies to every token: after the first parse call
\* that returns, every token after the program-identity token whose name is
\* not registered but whose every character is (a cluster, wherever it
\* stands, also right after another cluster) is replaced in place by one
\* argument-less token per character, in order, and every other token is
\* unchanged.
C2_ExpandsEveryCluster ==
  (call.op = "parse" /\ nParse = 1 /\ status # "abort"
     /\ ProgramNameApart(call.argv))
    => LET input == tokenize(call.argv, 2, <<Token(call.argv[1])>>)
       IN tokens = <<input[1]>> \o ExpandAll(input, 2, funcs, alias)

----------------------------------------------------------------------------
(* C10 *)

\* C10: The program-identity token carries no command: when every parse call
\* so far had an argument vector without a dash-prefixed argument (each left
\* one token, that of argument 0 with the plain arguments after it), run()
\* invokes no action of a registered binding, whatever argument 0 is.
C10_ProgramTokenInert ==
  (call.op = "run" /\ status # "fatal" /\ Len(tokens) = nParse)
    => \A i \in 1..Len(invoked) : ~IsBound(invoked[i])

----------------------------------------------------------------------------
(* C8 *)

\* the expected number of arguments is set and the token has fewer
Short(t, fs, al) ==
  /\ IsRegistered(t.cmd, fs, al)
  /\ Binding(t.cmd, fs, al).expected_args # NoArity
  /\ Len(t.args) < Binding(t.cmd, fs, al).expected_args

\* the expected number of arguments is set and the token has more
Long(t, fs, al) ==
  /\ IsRegistered(t.cmd, fs, al)
  /\ Binding(t.cmd, fs, al).expected_args # NoArity
  /\ Len(t.args) > Binding(t.cmd, fs, al).expected_args

\* the tokens before the first one that is Short (all, if none is)
BeforeShort(toks, fs, al) ==
  LET short == {i \in 1..Len(toks) : Short(toks[i], fs, al)}
  IN IF short = {} THEN toks
     ELSE SubSeq(toks, 1, (CHOOSE i \in short : \A j \in short : i <= j) - 1)

\* one warning per Long token of toks, in order
RECURSIVE LongWarnings(_, _, _)
LongWarnings(toks, fs, al) ==
  IF toks = <<>> THEN <<>>
  ELSE LET t == Head(toks)
           b == Binding(t.cmd, fs, al)
       IN (IF Long(t, fs, al)
           THEN <<ArityWarning(b.name, b.expected_args, Len(t.args))>>
           ELSE <<>>)
          \o LongWarnings(Tail(toks), fs, al)

IsArityWarning(w) == w.kind = "arity"

\* C8: Arity check at pack time (the expected number, when set, being a
\* count n >= 0): parse raises an error exactly if a resolved token has
\* fewer arguments than its binding's set expected number, and
\* that token gets no deferred action; a token with more arguments gets one
\* arity warning and its action is bound to all of its arguments, in order;
\* a token with exactly the expected number, or of a binding with no
\* expected number, gets its action and no arity diagnostic.
C8_ArityAtPack ==
  [][IsParseStep =>
       LET done == BeforeShort(tokens', funcs', alias')
           added == Dispatched(done, funcs', alias')
       IN /\ status' = "error"
               <=> \E i \in 1..Len(tokens') : Short(tokens'[i], funcs', alias')
          /\ status' = "error" => tasks' = tasks \o added
          /\ status' = "ok" => IsPermutation(tasks', tasks \o added)
          /\ SelectSeq(warns', IsArityWarning)
               = LongWarnings(done, funcs', alias')
    ]_vars

\* a parse call that completed with an arity warning: a binding expecting
\* one argument got two, and its deferred action holds both
C8_Witness ==
  /\ call.op = "parse" /\ status = "ok"
  /\ \E i \in 1..Len(warns) :
       IsArityWarning(warns[i]) /\ warns[i].expected = 1 /\ warns[i].given = 2
  /\ \E i \in 1..Len(tasks) :
       /\ IsBound(tasks[i])
       /\ funcs[tasks[i].name].expected_args = 1
       /\ tasks[i].arg = <<<<"x">>, <<"x">>>>

----------------------------------------------------------------------------
(* C9 *)

\* the action p is not one of a value binding, or its first argument
\* converts and the restrictor accepts the converted value
Succeeds(p) ==
  p.func.kind = "value"
    => /\ str_to_int(p.arg[1]).ok
       /\ Accepts(p.func.restrictor, str_to_int(p.arg[1]).val)

\* C9: Value bindings are all-or-nothing: in a run() call an invoked action
\* of a value binding assigns the converted first argument to the bound
\* variable only if the conversion succeeds and the restrictor accepts the
\* value; otherwise it raises an error (which ends the run) and the variable
\* keeps the value it had: after the call the variable holds the value of
\* the last invoked value action that succeeded, or its old value if none
\* did.
C9_ValueAllOrNothing ==
  [][(IsRunStep /\ parsed) =>
       LET n == Len(invoked')
           assigned == {i \in 1..n : invoked'[i].func.kind = "value"
                                      /\ Succeeds(invoked'[i])}
           last == CHOOSE i \in assigned : \A j \in assigned : j <= i
       IN /\ \A i \in 1..(n - 1) : Succeeds(invoked'[i])
          /\ status' = "error" <=> (n > 0 /\ ~Succeeds(invoked'[n]))
          /\ oneof' = IF assigned = {} THEN oneof
                      ELSE str_to_int(invoked'[last].arg[1]).val
    ]_vars

\* a run() that assigned 3 and then ended on a value action whose argument
\* the restrictor rejects ("2") or that does not convert ("x")
C9_Witness ==
  /\ call.op = "run" /\ status = "error"
  /\ oneof = 3
  /\ Len(invoked) >= 2
  /\ invoked[Len(invoked)].func.kind = "value"

====
